---- MODULE Spec2Model ----
(***************************************************************************)
(* Keyboard-driven ODrive control: the hold-to-move programs               *)
(*   py_twomotortest.py   two axes, raw-mode key sampling in a daemon      *)
(*                        thread, supervising main thread, SIGINT handler  *)
(*   py_keycontroltest.py the same loop with simulated (printed) actions   *)
(*   py_onewheeltest.py   one axis, line commands read with input()        *)
(* A behaviour is one run of one of the programs, from the first statement *)
(* of main after the banner to process exit.                               *)
(* Thread steps interleave at the granularity of the shared accesses: the  *)
(* loop test on running, the terminal mode switch, the bounded-wait read,  *)
(* the locked hold/release step, each actuator call, and the supervising   *)
(* thread's wait loop and finally block.                                   *)
(***************************************************************************)
EXTENDS Integers, Sequences, FiniteSets, TLC

\* ------------------------------------------------------------------ bounds
\* Sample calls the monitor thread may start in one run.
MaxSamples == 2
\* Actuator commands that may fail (raise inside set_motor_velocity) in one run.
MaxFail == 1

\* --------------------------------------------------------------- constants
VELOCITY == 1

None == "None"
Programs == {"twomotor", "keycontrol", "onewheel"}
Axes == {"left", "right"}

\* Bytes the terminal can deliver to sys.stdin.read(1).  ETX is 0x03 (Ctrl+C
\* typed while the terminal is raw), ESC is 0x1b; "Q" is not in the
\* two-motor key table.
Chars == {"1", "2", "3", "4", "w", "s", "a", "d", "q", "e", "x", "Q"}
Bytes == Chars \cup {"ESC", "ETX"}

VARIABLES
    program,       \* which script is running
    isatty,        \* sys.stdin is an interactive terminal
    sigint,        \* disposition of SIGINT: "default" or "signal_handler"
    running,       \* global running
    current_key,   \* global current_key
    key_lock,      \* holder of key_lock: "free" or "monitor"
    pcMon,         \* position of key_monitor_thread
    key,           \* key_monitor_thread's local key
    pend,          \* actuator calls the monitor has still to make in this dispatch
    pcMain,        \* position of main
    term,          \* mode of the terminal behind sys.stdin
    old_settings,  \* getch_non_blocking's saved mode
    vel,           \* axis.controller.input_vel of each axis
    sampled,       \* history: the result of every sample call, in order
    log            \* history: debounce transitions, actuator calls and prints

vars == <<program, isatty, sigint, running, current_key, key_lock, pcMon, key, pend, pcMain,
          term, old_settings, vel, sampled, log>>

\* --------------------------------------------------------------- helpers
Call(op, axis, v) == [op |-> op, arg |-> axis, v |-> v]

Entry(who, op, arg, v, ok) == [who |-> who, op |-> op, arg |-> arg, v |-> v, ok |-> ok]

FailCount(l) == Cardinality({i \in 1..Len(l) : ~l[i].ok})

\* stop_motor(axis): set_motor_velocity(axis, 0)
stop_motor(axis) == Call("stop", axis, 0)

\* stop_all_motors: left first, then right
stop_all_motors_LeftOnly == <<stop_motor("left")>>

stop_all_motors == <<stop_motor("left"), stop_motor("right")>>

set_motor_velocity_Negated(axis, v) == Call("setVelocity", axis, -v)

set_motor_velocity(axis, v) == Call("setVelocity", axis, v)

\* The actuator calls of handle_motor_control(key, ...), in program order.
handle_motor_control(k) ==
    CASE k = "1" -> <<set_motor_velocity("left", VELOCITY)>>
      [] k = "2" -> <<set_motor_velocity("left", -VELOCITY)>>
      [] k = "3" -> <<set_motor_velocity("right", VELOCITY)>>
      [] k = "4" -> <<set_motor_velocity("right", -VELOCITY)>>
      [] k = "w" -> <<set_motor_velocity("left", VELOCITY),
                      set_motor_velocity("right", VELOCITY)>>
      [] k = "s" -> <<set_motor_velocity("left", -VELOCITY),
                      set_motor_velocity("right", -VELOCITY)>>
      [] k = "a" -> <<set_motor_velocity("right", VELOCITY),
                      set_motor_velocity("left", 0)>>
      [] k = "d" -> <<set_motor_velocity("left", VELOCITY),
                      set_motor_velocity("right", 0)>>
      [] k = "q" -> <<set_motor_velocity("left", -VELOCITY),
                      set_motor_velocity("right", VELOCITY)>>
      [] k = "e" -> <<set_motor_velocity("right", -VELOCITY),
                      set_motor_velocity("left", VELOCITY)>>
      [] k = "x" -> stop_all_motors
      [] OTHER -> <<>>

\* The value handle_motor_control returns: False for 'esc' only.
HandleReturn_QuitOnQ(k) == k \notin {"esc", "q"}

HandleReturn(k) == k # "esc"

\* running after `if not handle_motor_control(...): running = False`
RunningAfterHandle_Assign(k, r) == HandleReturn(k)

RunningAfterHandle(k, r) == IF HandleReturn(k) THEN r ELSE FALSE

\* What getch_non_blocking returns for a byte read (0x03 raises instead).
Decode(p, b) == IF p = "twomotor" /\ b = "ESC" THEN "esc" ELSE b

\* str.lower() on the one-character keys
Lower(k) == IF k = "Q" THEN "q" ELSE k

\* The line the simulation prints for a newly pressed key.
ActionPrint(k) ==
    IF k = "1" THEN "ACTION: Moving forward"
    ELSE IF k = "2" THEN "ACTION: Moving backward"
    ELSE IF Lower(k) = "q" THEN "Quitting program..."
    ELSE "ACTION: Stopping (other key pressed)"

\* main's first statement after the banner: the simulation has no hardware.
FirstStep(p) == IF p = "keycontrol" THEN "register" ELSE "find"

\* The statement of main that follows a startup call: find_odrive and
\* setup_motor end the process with sys.exit(1) when the call raises.
StartupNext_Continue(p, pc, ok) ==
    CASE pc = "find" -> "setup_left"
      [] pc = "setup_left" -> IF p = "twomotor" THEN "setup_right" ELSE "register"
      [] pc = "setup_right" -> "register"

StartupNext(p, pc, ok) ==
    IF ~ok THEN "failed"
    ELSE CASE pc = "find" -> "setup_left"
           [] pc = "setup_left" -> IF p = "twomotor" THEN "setup_right" ELSE "register"
           [] pc = "setup_right" -> "register"

\* The line find_odrive or setup_motor prints when its call raises.
StartupFailure(pc) ==
    IF pc = "find" THEN "Failed to find ODrive" ELSE "Failed to setup motor"

\* ------------------------------------------------------------------ Init
Init ==
    /\ program \in Programs
    /\ isatty \in (IF program = "onewheel" THEN {TRUE} ELSE BOOLEAN)
    /\ sigint = "default"
    /\ running = TRUE
    /\ current_key = None
    /\ key_lock = "free"
    /\ pcMon = "unstarted"
    /\ key = None
    /\ pend = <<>>
    /\ pcMain = FirstStep(program)
    /\ term = "cooked"
    /\ old_settings = "cooked"
    /\ vel = [a \in Axes |-> 0]
    /\ sampled = <<>>
    /\ log = <<>>

Alive == pcMain \notin {"exited", "failed"}

\* ---------------------------------------------------------- main: startup
\* find_odrive(), setup_motor(odrv, LEFT_MOTOR_INDEX), setup_motor(odrv,
\* RIGHT_MOTOR_INDEX): each either returns or prints and calls sys.exit(1).
Startup ==
    /\ pcMain \in {"find", "setup_left", "setup_right"}
    /\ \E ok \in BOOLEAN :
         /\ pcMain' = StartupNext(program, pcMain, ok)
         /\ log' = IF ok THEN log
                   ELSE Append(log, Entry("main", "print", StartupFailure(pcMain), 0, TRUE))
    /\ UNCHANGED <<program, isatty, sigint, running, current_key, key_lock, pcMon, key,
                   pend, term, old_settings, vel, sampled>>

\* SIGINT before signal.signal has run: KeyboardInterrupt in main, which
\* `except Exception` does not catch; the process ends with a traceback.
DefaultSigint ==
    /\ Alive /\ sigint = "default"
    /\ pcMain' = "failed"
    /\ UNCHANGED <<program, isatty, sigint, running, current_key, key_lock, pcMon, key,
                   pend, term, old_settings, vel, sampled, log>>

\* signal.signal(signal.SIGINT, signal_handler)
RegisterHandler ==
    /\ pcMain = "register"
    /\ sigint' = "signal_handler"
    /\ pcMain' = IF program = "onewheel" THEN "input" ELSE "start"
    /\ UNCHANGED <<program, isatty, running, current_key, key_lock, pcMon, key, pend,
                   term, old_settings, vel, sampled, log>>

\* monitor = threading.Thread(...); monitor.daemon = True; monitor.start()
StartMonitor ==
    /\ pcMain = "start"
    /\ pcMon' = "loop"
    /\ pcMain' = "wait"
    /\ UNCHANGED <<program, isatty, sigint, running, current_key, key_lock, key, pend,
                   term, old_settings, vel, sampled, log>>

\* ------------------------------------------------------- key_monitor_thread
\* `while running:` (after the 50 ms sleep that ends the previous cycle)
MonitorLoopTest ==
    /\ Alive /\ pcMon = "loop"
    /\ running => Len(sampled) < MaxSamples
    /\ pcMon' = IF running THEN "getch" ELSE "done"
    /\ UNCHANGED <<program, isatty, sigint, running, current_key, key_lock, key, pend, pcMain,
                   term, old_settings, vel, sampled, log>>

\* getch_non_blocking: tcgetattr, then tty.setraw.  Without a terminal
\* tcgetattr raises termios.error, which nothing in key_monitor_thread
\* catches: the thread ends.
GetchEnter ==
    /\ Alive /\ pcMon = "getch"
    /\ IF isatty
       THEN /\ old_settings' = term
            /\ term' = "raw"
            /\ pcMon' = "select"
       ELSE /\ pcMon' = "dead"
            /\ UNCHANGED <<old_settings, term>>
    /\ UNCHANGED <<program, isatty, sigint, running, current_key, key_lock, key, pend, pcMain,
                   vel, sampled, log>>

\* getch_non_blocking: select with the 0.5 s timeout, read(1), and the finally
\* block that restores the saved mode.  0x03 raises KeyboardInterrupt, which
\* nothing in key_monitor_thread catches: the thread ends.
GetchReturn ==
    /\ Alive /\ pcMon = "select"
    /\ \E b \in Bytes \cup {None} :
        /\ sampled' = Append(sampled, b)
        /\ IF b = "ETX"
           THEN /\ pcMon' = "dead"
                /\ key' = key
           ELSE /\ pcMon' = "debounce"
                /\ key' = IF b = None THEN None ELSE Decode(program, b)
    /\ term' = old_settings
    /\ UNCHANGED <<program, isatty, sigint, running, current_key, key_lock, pend, pcMain,
                   old_settings, vel, log>>

\* `if key is not None: if key != current_key:` a newly pressed key
IsNewPress_NoDebounce(k, cur) == k # None

IsNewPress(k, cur) == k # None /\ k # cur

\* `else: if current_key is not None:` an input-less cycle while a key is held
IsRelease_Always(k, cur) == k = None

IsRelease(k, cur) == k = None /\ cur # None

\* The actuator calls the press branch makes for key k while cur is held:
\* those of handle_motor_control(key, ...) and nothing for cur.
PressCalls_StopFirst(k, cur) ==
    IF cur # None THEN stop_all_motors \o handle_motor_control(k)
    ELSE handle_motor_control(k)

PressCalls_UnknownStops(k, cur) ==
    IF handle_motor_control(k) = <<>> /\ k # "esc" THEN stop_all_motors
    ELSE handle_motor_control(k)

PressCalls(k, cur) == handle_motor_control(k)

\* Holder of key_lock inside `with key_lock:`
WithKeyLock_NoLock == "free"

WithKeyLock == "monitor"

\* `current_key = None` of the release branch
HeldAfterRelease_Keep(cur) == cur

HeldAfterRelease(cur) == None

\* The actuator calls of the release branch: stop_all_motors(left, right)
ReleaseCalls_None == <<>>

ReleaseCalls == stop_all_motors

\* `with key_lock:` body of the two-motor loop, up to the first actuator call.
DebounceTwoMotor ==
    IF IsNewPress(key, current_key)
    THEN /\ current_key' = key
         /\ log' = Append(log, Entry("monitor", "Pressed", key, 0, TRUE))
         /\ pend' = PressCalls(key, current_key)
         /\ pcMon' = "handle"
         /\ key_lock' = WithKeyLock
    ELSE IF IsRelease(key, current_key)
         THEN /\ log' = Append(log, Entry("monitor", "Released", current_key, 0, TRUE))
              /\ pend' = ReleaseCalls
              /\ pcMon' = "release"
              /\ key_lock' = WithKeyLock
              /\ UNCHANGED current_key
         ELSE /\ pcMon' = "loop"
              /\ UNCHANGED <<current_key, log, pend, key_lock>>

\* `with key_lock:` body of the simulation loop: it only prints, so the whole
\* body is one step.
DebounceKeyControl ==
    /\ pcMon' = "loop"
    /\ UNCHANGED <<pend, key_lock>>
    /\ IF key # None
       THEN IF IsNewPress(key, current_key)
            THEN /\ current_key' = key
                 /\ log' = log \o <<Entry("monitor", "Pressed", key, 0, TRUE),
                                    Entry("monitor", "print", ActionPrint(key), 0, TRUE)>>
                 /\ running' = IF key \notin {"1", "2"} /\ Lower(key) = "q"
                               THEN FALSE ELSE running
            ELSE UNCHANGED <<current_key, log, running>>
       ELSE /\ current_key' = HeldAfterRelease(current_key)
            /\ running' = running
            /\ log' = log
                 \o (IF IsRelease(key, current_key)
                     THEN <<Entry("monitor", "Released", current_key, 0, TRUE)>>
                     ELSE <<>>)
                 \o (IF current_key \in {"1", "2"}
                     THEN <<Entry("monitor", "print", "ACTION: Stopping (key released)", 0, TRUE)>>
                     ELSE <<>>)

Debounce ==
    /\ Alive /\ pcMon = "debounce"
    /\ IF program = "twomotor"
       THEN DebounceTwoMotor /\ running' = running
       ELSE DebounceKeyControl
    /\ UNCHANGED <<program, isatty, sigint, key, pcMain, term, old_settings, vel, sampled>>

\* One actuator call: axis.controller.input_vel = velocity inside try/except.
\* A failing call is reported and leaves input_vel as it was.
Issue(who, c, ok) ==
    /\ ok \/ FailCount(log) < MaxFail
    /\ log' = Append(log, Entry(who, c.op, c.arg, c.v, ok))
    /\ vel' = IF ok THEN [vel EXCEPT ![c.arg] = c.v] ELSE vel

\* The calls still to make after one call has returned: set_motor_velocity
\* swallows the exception, so the caller goes on to its next statement.
PendAfterCall_Retry(p, ok) == IF ok THEN Tail(p) ELSE p

PendAfterCall(p, ok) == Tail(p)

\* The next actuator call of handle_motor_control or of the release branch.
MonitorCall ==
    /\ Alive /\ pcMon \in {"handle", "release"} /\ pend # <<>>
    /\ \E ok \in BOOLEAN :
         /\ Issue("monitor", Head(pend), ok)
         /\ pend' = PendAfterCall(pend, ok)
    /\ UNCHANGED <<program, isatty, sigint, running, current_key, key_lock, pcMon, key, pcMain,
                   term, old_settings, sampled>>

\* handle_motor_control has returned: `running = False; break` on False.
HandleDone ==
    /\ Alive /\ pcMon = "handle" /\ pend = <<>>
    /\ running' = RunningAfterHandle(key, running)
    /\ pcMon' = IF HandleReturn(key) THEN "loop" ELSE "done"
    /\ key_lock' = "free"
    /\ UNCHANGED <<program, isatty, sigint, current_key, key, pend, pcMain, term, old_settings,
                   vel, sampled, log>>

\* stop_all_motors has returned in the release branch: current_key = None.
ReleaseDone ==
    /\ Alive /\ pcMon = "release" /\ pend = <<>>
    /\ current_key' = HeldAfterRelease(current_key)
    /\ pcMon' = "loop"
    /\ key_lock' = "free"
    /\ UNCHANGED <<program, isatty, sigint, running, key, pend, pcMain, term, old_settings,
                   vel, sampled, log>>

\* ----------------------------------------------------------- signal_handler
\* SIGINT delivered to the process; the handler runs in the main thread.
signal_handler ==
    /\ Alive /\ sigint = "signal_handler" /\ program # "onewheel"
    /\ running' = FALSE
    /\ UNCHANGED <<program, isatty, sigint, current_key, key_lock, pcMon, key, pend, pcMain,
                   term, old_settings, vel, sampled, log>>

\* ------------------------------------------------------------------- main
\* `while running: time.sleep(0.1)` falls through into the finally block.
MainLoopExit ==
    /\ pcMain = "wait" /\ ~running
    /\ pcMain' = IF program = "twomotor" THEN "stop_left" ELSE "finally"
    /\ UNCHANGED <<program, isatty, sigint, running, current_key, key_lock, pcMon, key, pend,
                   term, old_settings, vel, sampled, log>>

\* finally: stop_all_motors(left_axis, right_axis), one call per step
MainStop ==
    /\ pcMain \in {"stop_left", "stop_right"}
    /\ \E ok \in BOOLEAN :
         Issue("main", stop_motor(IF pcMain = "stop_left" THEN "left" ELSE "right"), ok)
    /\ pcMain' = IF pcMain = "stop_left" THEN "stop_right" ELSE "finally"
    /\ UNCHANGED <<program, isatty, sigint, running, current_key, key_lock, pcMon, key, pend,
                   term, old_settings, sampled>>

\* finally: time.sleep(0.5) (two-motor), print, return: the process exits and
\* the daemon thread is stopped where it is.
MainExit ==
    /\ pcMain = "finally"
    /\ pcMain' = "exited"
    /\ UNCHANGED <<program, isatty, sigint, running, current_key, key_lock, pcMon, key, pend,
                   term, old_settings, vel, sampled, log>>

\* ------------------------------------------------------ py_onewheeltest.py
\* MOTOR_INDEX = 0: the one axis is axis0, the two-motor program's left axis.
OneAxis == "left"

\* What input() can hand to the loop: the commands, any other line ("x"),
\* and end of input (EOFError).
OneWheelInputs == {"1", "2", "0", "q", "Q", "x", "EOF"}

\* The set_velocity call of a command line, if it has one.
OneWheelCalls(cmd) ==
    CASE cmd = "1" -> <<set_motor_velocity(OneAxis, 1)>>
      [] cmd = "2" -> <<set_motor_velocity(OneAxis, -1)>>
      [] cmd = "0" -> <<set_motor_velocity(OneAxis, 0)>>
      [] OTHER -> <<>>

\* Where main is after a command line: 'q' goes to stop_motor and break, an
\* exception from input() to the except and finally blocks, the rest loops.
OneWheelNext_NoFinally(cmd) ==
    IF cmd = "EOF" THEN "exited"
    ELSE IF Lower(cmd) = "q" THEN "q_stop" ELSE "input"

OneWheelNext(cmd) ==
    IF cmd = "EOF" THEN "finally_stop"
    ELSE IF Lower(cmd) = "q" THEN "q_stop" ELSE "input"

\* One pass of `while True:` user_input = input(...) and its branch.
OneWheelInput ==
    /\ program = "onewheel" /\ pcMain = "input"
    /\ Len(sampled) < MaxSamples
    /\ \E cmd \in OneWheelInputs :
         /\ sampled' = Append(sampled, cmd)
         /\ pcMain' = OneWheelNext(cmd)
         /\ IF OneWheelCalls(cmd) # <<>>
            THEN \E ok \in BOOLEAN : Issue("main", OneWheelCalls(cmd)[1], ok)
            ELSE UNCHANGED <<log, vel>>
    /\ UNCHANGED <<program, isatty, sigint, running, current_key, key_lock, pcMon, key,
                   pend, term, old_settings>>

\* stop_motor(axis) of the 'q' branch (then break) and of the finally block
\* (then the process exits).
OneWheelStop ==
    /\ program = "onewheel" /\ pcMain \in {"q_stop", "finally_stop"}
    /\ \E ok \in BOOLEAN : Issue("main", stop_motor(OneAxis), ok)
    /\ pcMain' = IF pcMain = "q_stop" THEN "finally_stop" ELSE "exited"
    /\ UNCHANGED <<program, isatty, sigint, running, current_key, key_lock, pcMon, key,
                   pend, term, old_settings, sampled>>

\* py_onewheeltest.py signal_handler: stop_motor(axis); sys.exit(0).  The
\* SystemExit unwinds main: through the finally block when main is inside the
\* try, out of the process when main is already in the finally block.
signal_handler_onewheel ==
    /\ program = "onewheel" /\ Alive /\ sigint = "signal_handler"
    /\ \E ok \in BOOLEAN : Issue("signal", stop_motor(OneAxis), ok)
    /\ pcMain' = IF pcMain = "finally_stop" THEN "exited" ELSE "finally_stop"
    /\ UNCHANGED <<program, isatty, sigint, running, current_key, key_lock, pcMon, key,
                   pend, term, old_settings, sampled>>

MonitorStep ==
    \/ MonitorLoopTest
    \/ GetchEnter
    \/ GetchReturn
    \/ Debounce
    \/ MonitorCall
    \/ HandleDone
    \/ ReleaseDone

MainStep ==
    \/ Startup
    \/ RegisterHandler
    \/ StartMonitor
    \/ MainLoopExit
    \/ MainStop
    \/ MainExit
    \/ OneWheelInput
    \/ OneWheelStop

Next ==
    \/ MonitorLoopTest
    \/ GetchEnter
    \/ GetchReturn
    \/ Debounce
    \/ MonitorCall
    \/ HandleDone
    \/ ReleaseDone
    \/ signal_handler
    \/ DefaultSigint
    \/ Startup
    \/ RegisterHandler
    \/ StartMonitor
    \/ MainLoopExit
    \/ MainStop
    \/ MainExit
    \/ OneWheelInput
    \/ OneWheelStop
    \/ signal_handler_onewheel

Spec == Init /\ [][Next]_vars

\* The scheduler runs both threads; SIGINT is the environment's choice.
FairSpec == Spec /\ WF_vars(MonitorStep) /\ WF_vars(MainStep)

\* ------------------------------------------------------- history readings
\* The keys of the two-motor key table (key_name).
KeyTable == {"1", "2", "3", "4", "w", "s", "a", "d", "q", "e", "x", "esc"}

IsCall(e) == e.op \in {"setVelocity", "stop"}

\* Indices of the velocity commands axis a has received, from either thread.
CommandsTo(a) == {i \in 1..Len(log) : IsCall(log[i]) /\ log[i].arg = a /\ log[i].ok}

\* No actuator command has failed so far.
NoFailure == FailCount(log) = 0

Last(S) == CHOOSE i \in S : \A j \in S : j <= i

\* The last velocity command axis a has received is 0.
LastCommandIsZero(a) == CommandsTo(a) # {} /\ log[Last(CommandsTo(a))].v = 0

\* No command other than 0 is the last one received by any axis.
NoStaleVelocity == \A a \in Axes : CommandsTo(a) # {} => log[Last(CommandsTo(a))].v = 0

\* The monitor thread's entries of the log.
MonLog == SelectSeq(log, LAMBDA e : e.who = "monitor")

\* The actuator calls in l, as <<op, axis, velocity>>.
CallsOf(l) ==
    LET c == SelectSeq(l, IsCall)
    IN  [i \in 1..Len(c) |-> <<c[i].op, c[i].arg, c[i].v>>]

\* The keys of the events of kind op in l, in order.
EventKeys(l, op) ==
    LET c == SelectSeq(l, LAMBDA e : e.op = op)
    IN  [i \in 1..Len(c) |-> c[i].arg]

\* Number of sample results the locked step has consumed.
Debounced ==
    IF pcMon = "debounce" \/ (pcMon = "dead" /\ isatty)
    THEN Len(sampled) - 1 ELSE Len(sampled)

\* The symbol the i-th sample handed to the loop.
Sym(i) == IF sampled[i] = None THEN None ELSE Decode(program, sampled[i])

\* The sampling cycle of the last sample has run to its end.
CycleDone == pcMon \in {"loop", "getch", "select", "done"}

MainStopped(a) == \E i \in 1..Len(log) : log[i].who = "main" /\ log[i].op = "stop" /\ log[i].arg = a

\* ------------------------------------------------------------------ claims

\* C1: in the two-motor program, whenever the process has exited, the last
\* velocity command received by the left and by the right actuator is 0
\* (stated for the runs in which no actuator command fails).
C1_StoppedAtExit ==
    (program = "twomotor" /\ pcMain = "exited" /\ NoFailure)
        => \A a \in Axes : LastCommandIsZero(a)

\* C2: whenever a sample call has read the interrupt byte 0x03, the process
\* eventually exits with a stop issued by the supervising thread to both axes
\* (RunFlag has become false and the wait loop has been left).
C2_InterruptQuits ==
    (program = "twomotor" /\ Len(sampled) > 0 /\ sampled[Len(sampled)] = "ETX")
        ~> (~running /\ pcMain = "exited" /\ \A a \in Axes : MainStopped(a))

\* C5: once the press of a key that is not in the key table has been
\* dispatched, no axis is left with a non-zero velocity as its last command
\* (stated for the runs in which no actuator command fails and the
\* supervising thread is still waiting).
C5_UnmappedStopsAll ==
    (program = "twomotor" /\ CycleDone /\ current_key # None /\ current_key \notin KeyTable
       /\ NoFailure /\ pcMain = "wait")
        => NoStaleVelocity

\* C6: outside a sample call the terminal is in the mode saved at the start of
\* the call, and once the process has exited the terminal is not raw.
C6_TerminalRestored ==
    /\ pcMon \notin {"select"} => term = old_settings
    /\ pcMain = "exited" => term = "cooked"

\* Sample i starts a hold: a key that differs from the symbol before it.
StartsHold(i) == Sym(i) # None /\ (i = 1 \/ Sym(i) # Sym(i - 1))

\* Sample i ends the hold of sample i-1, by None or by another key.
EndsHold(i) == i > 1 /\ Sym(i - 1) # None /\ Sym(i) # Sym(i - 1)

\* Sample i is an input-less cycle that ends the hold of sample i-1.
EndsHoldByNone(i) == EndsHold(i) /\ Sym(i) = None

RECURSIVE HoldsStarted(_)
HoldsStarted(n) ==
    IF n = 0 THEN <<>>
    ELSE HoldsStarted(n - 1) \o (IF StartsHold(n) THEN <<Sym(n)>> ELSE <<>>)

RECURSIVE HoldsEnded(_)
HoldsEnded(n) ==
    IF n = 0 THEN <<>>
    ELSE HoldsEnded(n - 1) \o (IF EndsHold(n) THEN <<Sym(n - 1)>> ELSE <<>>)

RECURSIVE HoldsEndedByNone(_)
HoldsEndedByNone(n) ==
    IF n = 0 THEN <<>>
    ELSE HoldsEndedByNone(n - 1) \o (IF EndsHoldByNone(n) THEN <<Sym(n - 1)>> ELSE <<>>)

\* This step is the monitor thread's locked step on the sampled key.
DebounceStep == pcMon = "debounce" /\ pcMon' # "debounce"

\* C3: a press is dispatched exactly once per unbroken hold (the Pressed
\* events are the holds started, in order), and a cycle that samples the key
\* already held issues no event, no print and no actuator command.
C3_PressOncePerHold ==
    /\ [](program # "onewheel" => EventKeys(MonLog, "Pressed") = HoldsStarted(Debounced))
    /\ [][(DebounceStep /\ key # None /\ key = current_key)
            => (log' = log /\ pend' = <<>> /\ vel' = vel /\ pcMon' = "loop")]_vars

C3_Witness ==
    /\ Len(sampled) = 2 /\ sampled[1] = "w" /\ sampled[2] = "w"
    /\ program = "twomotor" /\ pcMon = "loop" /\ current_key = "w"

\* C4 as claimed: every hold that has ended, whether by an input-less cycle
\* or by a different key, has got its Released event.
C4_ReleasedEveryHold ==
    CycleDone => EventKeys(MonLog, "Released") = HoldsEnded(Debounced)

\* C4 as amended: the Released events are exactly the holds ended by an
\* input-less cycle, one per hold and in order, and a Released event is
\* emitted only by a cycle that sampled None while that key was held; the
\* simulation prints its release line for the holds of '1' and '2' only.
C4_ReleasedOnNoneOnly ==
    /\ [](EventKeys(MonLog, "Released") = HoldsEndedByNone(Debounced))
    /\ [](program = "keycontrol" =>
            Len(SelectSeq(log, LAMBDA e : e.arg = "ACTION: Stopping (key released)"))
              = Len(SelectSeq(HoldsEndedByNone(Debounced), LAMBDA k : k \in {"1", "2"})))
    /\ [][(log' # log /\ EventKeys(log', "Released") # EventKeys(log, "Released"))
            => /\ DebounceStep /\ key = None /\ current_key # None
               /\ EventKeys(log', "Released")
                    = Append(EventKeys(log, "Released"), current_key)]_vars

C4_Witness ==
    /\ program = "keycontrol" /\ sampled = <<"1", None>> /\ pcMon = "loop"
    /\ EventKeys(MonLog, "Released") = <<"1">>

\* C7: running is true initially and never goes from false to true.
C7_RunFlagLatch == (running = TRUE) /\ [][~running => ~running']_vars

C7_Witness ==
    /\ ~running /\ program = "twomotor" /\ pcMon = "loop"
    /\ Len(sampled) > 0 /\ sampled[Len(sampled)] = "w"
    /\ pcMain = "wait"

\* The quit symbol of each program.
IsQuitKey(k) == IF program = "twomotor" THEN k = "esc" ELSE k \in {"q", "Q"}

\* The press of a quit symbol has been dispatched.
QuitDispatched ==
    /\ pcMon # "handle"
    /\ \E i \in 1..Len(log) : log[i].op = "Pressed" /\ IsQuitKey(log[i].arg)

\* C8: once the press of the quit symbol is dispatched RunFlag is false, the
\* quit symbol is the last symbol ever sampled and the loop is not in a
\* sample call, and the two-motor process exits only after the supervising
\* thread has issued stop to both axes; the dispatch of any other key leaves
\* RunFlag as it was.
C8_QuitKeyStops ==
    /\ [](QuitDispatched =>
            /\ ~running
            /\ IsQuitKey(Sym(Len(sampled)))
            /\ pcMon \in {"loop", "done"}
            /\ (program = "twomotor" /\ pcMain = "exited")
                  => \A a \in Axes : MainStopped(a))
    /\ [][((pcMon = "handle" /\ pcMon' # "handle") \/ (DebounceStep /\ key # None))
            /\ ~IsQuitKey(key)
            => running' = running]_vars

C8_Witness ==
    /\ program = "twomotor" /\ QuitDispatched /\ pcMain = "exited"
    /\ sampled = <<"q", "ESC">>

\* C9: in the two-motor program a cycle that samples None while a key is held
\* issues stop(left), stop(right) after the Released event and leaves HeldKey
\* none; [w, None] yields setVelocity(left,+1), setVelocity(right,+1),
\* stop(left), stop(right).
C9_ReleaseStopsAll ==
    /\ (program = "twomotor" /\ CycleDone /\ Debounced >= 2 /\ EndsHoldByNone(Debounced))
        => /\ current_key = None
           /\ Len(MonLog) >= 3
           /\ LET n == Len(MonLog)
              IN  /\ MonLog[n - 2].op = "Released" /\ MonLog[n - 2].arg = Sym(Debounced - 1)
                  /\ MonLog[n - 1].op = "stop" /\ MonLog[n - 1].arg = "left" /\ MonLog[n - 1].v = 0
                  /\ MonLog[n].op = "stop" /\ MonLog[n].arg = "right" /\ MonLog[n].v = 0
    /\ (program = "twomotor" /\ CycleDone /\ sampled = <<"w", None>>)
        => CallsOf(MonLog) = << <<"setVelocity", "left", 1>>, <<"setVelocity", "right", 1>>,
                                <<"stop", "left", 0>>, <<"stop", "right", 0>> >>

C9_Witness ==
    /\ program = "twomotor" /\ sampled = <<"w", None>> /\ pcMon = "loop"
    /\ vel = [a \in Axes |-> 0] /\ NoFailure /\ running

\* C10: in the two-motor program a cycle that samples a key other than the
\* held one makes it the held key, emits Pressed for it and nothing else, and
\* queues the new key's commands only; [a, d] yields Pressed(a),
\* setVelocity(right,+1), setVelocity(left,0), Pressed(d),
\* setVelocity(left,+1), setVelocity(right,0) and no Released or stop.
C10_KeyChangeNoRelease ==
    /\ [](program = "twomotor" /\ CycleDone /\ sampled = <<"a", "d">>
            => /\ current_key = "d"
               /\ [i \in 1..Len(MonLog) |-> <<MonLog[i].op, MonLog[i].arg, MonLog[i].v>>]
                    = << <<"Pressed", "a", 0>>,
                         <<"setVelocity", "right", 1>>, <<"setVelocity", "left", 0>>,
                         <<"Pressed", "d", 0>>,
                         <<"setVelocity", "left", 1>>, <<"setVelocity", "right", 0>> >>)
    /\ [][(program = "twomotor" /\ DebounceStep
             /\ key # None /\ current_key # None /\ key # current_key)
            => /\ current_key' = key
               /\ log' = Append(log, Entry("monitor", "Pressed", key, 0, TRUE))
               /\ \A i \in 1..Len(pend') : pend'[i].op = "stop" => key = "x"
               /\ pcMon' = "handle"]_vars

C10_Witness ==
    /\ program = "twomotor" /\ sampled = <<"a", "d">> /\ pcMon = "loop"
    /\ current_key = "d" /\ vel = [left |-> 1, right |-> 0]

\* C11: whenever the sampling thread has ended abnormally (no terminal behind
\* stdin, or an exception out of the sample call), the two-motor process
\* eventually exits with a stop issued by the supervising thread to both axes.
C11_SamplingFailureIsFatal ==
    (program = "twomotor" /\ pcMon = "dead")
        ~> (pcMain = "exited" /\ \A a \in Axes : MainStopped(a))

\* Index in MonLog of the last Pressed event (0 if there is none).
LastPressed ==
    LET m == MonLog
        S == {i \in 1..Len(m) : m[i].op = "Pressed"}
    IN  IF S = {} THEN 0 ELSE Last(S)

\* The monitor's actuator calls since the last Pressed event.
CallsSincePress ==
    LET m == MonLog
    IN  CallsOf(SubSeq(m, LastPressed + 1, Len(m)))

\* This step is a monitor actuator call that failed.
FailedMonitorCall ==
    /\ Len(log') = Len(log) + 1
    /\ log'[Len(log')].who = "monitor" /\ ~log'[Len(log')].ok

\* C12: a failed actuator call of the sampling thread is reported (logged as
\* failed) and dropped: the step leaves RunFlag, HeldKey and the velocities as
\* they were and moves on to the next call; the thread never ends because of
\* it; and while the key stays held each of its commands has been issued
\* once only, failed or not.
C12_FailedCommandDropped ==
    /\ [][FailedMonitorCall
            => /\ running' = running /\ current_key' = current_key /\ vel' = vel
               /\ pcMon' = pcMon /\ pend' = Tail(pend)]_vars
    /\ [][(program = "onewheel" /\ pcMain = "input" /\ Len(log') = Len(log) + 1
              /\ log'[Len(log')].who = "main" /\ ~log'[Len(log')].ok)
            => (pcMain' = "input" /\ vel' = vel)]_vars
    /\ [](pcMon = "dead"
            => (~isatty \/ (Len(sampled) > 0 /\ sampled[Len(sampled)] = "ETX")))
    /\ [](program = "twomotor" /\ CycleDone /\ current_key # None
            => Len(CallsSincePress) = Len(handle_motor_control(current_key)))

C12_Witness ==
    /\ program = "twomotor" /\ sampled = <<"w", "w">> /\ pcMon = "loop" /\ running
    /\ Len(log) = 3 /\ ~log[2].ok /\ vel = [left |-> 0, right |-> 1]

\* find_odrive or setup_motor has failed in this run.
StartupFailed ==
    \E i \in 1..Len(log) :
        log[i].arg \in {"Failed to find ODrive", "Failed to setup motor"}

\* C13: once finding the controller or setting up an axis has failed, the
\* process has exited with non-zero status, and it never registered the
\* SIGINT handler, never started the sampling thread and never issued a
\* velocity command.
C13_StartupFailureAborts ==
    StartupFailed
        => /\ pcMain = "failed"
           /\ sigint = "default"
           /\ pcMon = "unstarted" /\ sampled = <<>> /\ running
           /\ \A i \in 1..Len(log) : ~IsCall(log[i])
           /\ vel = [a \in Axes |-> 0]

C13_Witness ==
    /\ program = "twomotor" /\ pcMain = "failed"
    /\ log = <<Entry("main", "print", "Failed to setup motor", 0, TRUE)>>

\* Indices of the velocity commands issued to axis a, failed or not.
IssuedTo(a) == {i \in 1..Len(log) : IsCall(log[i]) /\ log[i].arg = a}

\* C14: when the one-wheel program has exited from its control loop, the last
\* velocity command issued to the axis is 0 (and the axis is at 0 if no
\* command failed); a stop issued while the velocity is 0 leaves it at 0.
C14_OneWheelStoppedAtExit ==
    /\ [](program = "onewheel" /\ pcMain = "exited"
            => /\ IssuedTo(OneAxis) # {}
               /\ log[Last(IssuedTo(OneAxis))].v = 0
               /\ NoFailure => vel[OneAxis] = 0)
    /\ [][(program = "onewheel" /\ Len(log') = Len(log) + 1
             /\ log'[Len(log')].op = "stop" /\ vel[OneAxis] = 0)
            => vel'[OneAxis] = 0]_vars

C14_Witness ==
    /\ program = "onewheel" /\ pcMain = "exited" /\ sampled = <<"1">>
    /\ Len(log) = 3 /\ log[1].v = 1 /\ log[2].who = "signal" /\ log[3].who = "main"
    /\ NoFailure

\* C15: the supervising thread issues its final stop-all only after the
\* sampling thread has left its loop: whenever main has issued a stop, the
\* sampling thread has ended, or stands at its loop test and will end there
\* without another sample.
C15_StopAfterLoopExit ==
    (program = "twomotor" /\ \E a \in Axes : MainStopped(a))
        => pcMon \in {"done", "dead", "loop"}

\* This step is one of the sampling thread inside its `with key_lock:` block.
MonitorLockedStep ==
    /\ pcMon \in {"debounce", "handle", "release"}
    /\ pcMon' # pcMon
    /\ pcMon = "debounce" \/ key_lock = "monitor"

\* C16 as claimed: every write of RunFlag is made by a context inside the
\* key_lock scope (the signal handler's write included).
C16_AllAccessUnderLock == [][running' # running => MonitorLockedStep]_vars

\* C16 as amended: the sampling thread holds key_lock throughout its debounce
\* and dispatch (no one holds it otherwise); every write of HeldKey, and every
\* write of RunFlag by the sampling thread, is a step inside that block; the
\* only other write of RunFlag is the signal handler's, made without the lock.
C16_DebounceUnderLock ==
    /\ [](pcMon \in {"handle", "release"} <=> key_lock = "monitor")
    /\ [][current_key' # current_key => MonitorLockedStep]_vars
    /\ [][(running' # running /\ ~MonitorLockedStep)
            => (pcMon' = pcMon /\ pcMain' = pcMain /\ key_lock' = key_lock /\ ~running')]_vars

C16_Witness ==
    /\ program = "twomotor" /\ key_lock = "monitor" /\ pcMon = "handle"
    /\ current_key = "w" /\ pend = <<>> /\ ~running /\ pcMain = "wait"

\* C17: once the debounce step of a cycle has run to its end, HeldKey is the
\* symbol that cycle sampled (none for None, s for a new symbol, h unchanged
\* for s = h); a sampled symbol is stored by the debounce step itself, and
\* HeldKey is written by no step other than the sampling thread's debounce
\* and release steps, and only to the cycle's symbol.
C17_HeldKeyFollowsSample ==
    /\ []((program # "onewheel" /\ CycleDone /\ Debounced >= 1)
            => current_key = Sym(Debounced))
    /\ [][(DebounceStep /\ key # None) => current_key' = key]_vars
    /\ [][(DebounceStep /\ key = current_key) => current_key' = current_key]_vars
    /\ [][current_key' # current_key
            => (pcMon \in {"debounce", "release"} /\ pcMon' # pcMon
                /\ pcMain' = pcMain /\ current_key' = key)]_vars

C17_Witness ==
    /\ program = "twomotor" /\ CycleDone /\ Len(sampled) = 2
    /\ sampled[1] = "w" /\ sampled[2] = None /\ current_key = None
    /\ EventKeys(MonLog, "Pressed") = <<"w">>

\* The <<axis, velocity>> pairs of a sequence of calls <<op, axis, velocity>>.
AxisVel(c) == [i \in 1..Len(c) |-> <<c[i][2], c[i][3]>>]

\* The <<axis, velocity>> pairs of a sequence of calls still to be made.
AxisVelOf(p) == [i \in 1..Len(p) |-> <<p[i].arg, p[i].v>>]

\* The velocity commands the dual-actuator table prescribes per key.
DualTable ==
    [k \in {"1", "2", "3", "4", "w", "s", "a", "d", "q", "e", "x", "esc"} |->
        CASE k = "1" -> << <<"left", 1>> >>
          [] k = "2" -> << <<"left", -1>> >>
          [] k = "3" -> << <<"right", 1>> >>
          [] k = "4" -> << <<"right", -1>> >>
          [] k = "w" -> << <<"left", 1>>, <<"right", 1>> >>
          [] k = "s" -> << <<"left", -1>>, <<"right", -1>> >>
          [] k = "a" -> << <<"right", 1>>, <<"left", 0>> >>
          [] k = "d" -> << <<"left", 1>>, <<"right", 0>> >>
          [] k = "q" -> << <<"left", -1>>, <<"right", 1>> >>
          [] k = "e" -> << <<"right", -1>>, <<"left", 1>> >>
          [] k = "x" -> << <<"left", 0>>, <<"right", 0>> >>
          [] k = "esc" -> << >>]

\* C18: while handle_motor_control runs for a key of the dual-actuator table,
\* the commands it has issued followed by those it has yet to issue are
\* exactly the table's commands for that key (VELOCITY = 1); when it returns
\* it has issued them all, and for Escape it has issued none and its False
\* return clears RunFlag and ends the sampling loop.
C18_DispatchTable ==
    /\ [](program = "twomotor" /\ pcMon = "handle" /\ key \in DOMAIN DualTable
            => AxisVel(CallsSincePress) \o AxisVelOf(pend) = DualTable[key])
    /\ [][(program = "twomotor" /\ pcMon = "handle" /\ pcMon' # "handle"
             /\ key \in DOMAIN DualTable)
            => /\ AxisVel(CallsSincePress) = DualTable[key]
               /\ (key = "esc") <=> (pcMon' = "done" /\ ~running')
               /\ (key # "esc") => (pcMon' = "loop" /\ running' = running)]_vars

C18_Witness ==
    /\ program = "twomotor" /\ pcMon = "loop" /\ key = "a" /\ current_key = "a"
    /\ Len(sampled) = 1 /\ NoFailure /\ pcMain = "wait"
    /\ AxisVel(CallsSincePress) = << <<"right", 1>>, <<"left", 0>> >>
    /\ vel = [a \in Axes |-> IF a = "right" THEN 1 ELSE 0]

\* C19: in the two-motor program, as long as no actuator command has failed,
\* whenever HeldKey is none the last velocity commanded to each actuator is 0
\* and each actuator's commanded velocity is 0.
C19_IdleMeansStopped ==
    (program = "twomotor" /\ NoFailure /\ current_key = None)
        => (NoStaleVelocity /\ \A a \in Axes : vel[a] = 0)

C19_Witness ==
    /\ program = "twomotor" /\ NoFailure /\ current_key = None /\ pcMon = "loop"
    /\ sampled = <<"s", None>> /\ pcMain = "wait"
    /\ \A a \in Axes : LastCommandIsZero(a) /\ Cardinality(CommandsTo(a)) = 2

\* This step is one of the sampling thread dispatching the sampled key.
DispatchStep ==
    /\ program = "twomotor" /\ pcMon \in {"debounce", "handle"}
    /\ pcMon' # pcMon \/ pend' # pend

\* C20: the dispatch of '1' or '2' commands the left axis only and leaves
\* the right axis's velocity as it was, that of '3' or '4' the right axis only;
\* after [w, 1] the right axis is still commanded at +1; the press of a key
\* outside the table becomes HeldKey, issues no command and leaves both
\* velocities as they were, as after [w, Q].
C20_SingleAxisFrame ==
    /\ [][(DispatchStep /\ key \in {"1", "2"})
            => (vel'["right"] = vel["right"]
                /\ \A i \in 1..Len(pend') : pend'[i].arg = "left")]_vars
    /\ [][(DispatchStep /\ key \in {"3", "4"})
            => (vel'["left"] = vel["left"]
                /\ \A i \in 1..Len(pend') : pend'[i].arg = "right")]_vars
    /\ [][(DispatchStep /\ key # None /\ key \notin KeyTable)
            => (vel' = vel /\ pend' = <<>> /\ current_key' = key
                /\ \A i \in Len(log) + 1..Len(log') : ~IsCall(log'[i]))]_vars
    /\ [](program = "twomotor" /\ CycleDone /\ NoFailure /\ pcMain = "wait"
            /\ sampled = <<"w", "1">>
            => (current_key = "1" /\ vel = [a \in Axes |-> 1]
                /\ log[Last(CommandsTo("right"))].v = 1))
    /\ [](program = "twomotor" /\ CycleDone /\ NoFailure /\ pcMain = "wait"
            /\ sampled = <<"w", "Q">>
            => (current_key = "Q" /\ vel = [a \in Axes |-> 1]
                /\ Cardinality(CommandsTo("left")) = 1
                /\ Cardinality(CommandsTo("right")) = 1))

C20_Witness ==
    /\ program = "twomotor" /\ CycleDone /\ NoFailure /\ pcMain = "wait"
    /\ sampled = <<"w", "1">> /\ current_key = "1"
    /\ Cardinality(CommandsTo("left")) = 2 /\ vel["right"] = 1

====
